---- MODULE Spec2Model ----
(***************************************************************************)
(* NotHotDog: the conversational test driver QaAgent (runTest, getHistory, *)
(* reset: src/src/services/agents/claude/qaAgent.ts), the generate-tests   *)
(* route handler with its JSON extractor                                   *)
(* (src/src/app/api/tools/generate-tests/route.ts) and the analyze-results *)
(* route handler (src/unnamed/part_000).                                   *)
(*                                                                         *)
(* runTest is an async function: one action per awaited call's outcome     *)
(* (resolved or rejected), each action running the synchronous code up to  *)
(* the next await.  The collaborators that are not part of the sources     *)
(* (the language model, the target API, the clock) are nondeterministic    *)
(* choices over small sets.                                                *)
(***************************************************************************)
EXTENDS Integers, Sequences, FiniteSets, TLC

\* ------------------------------------------------------------------ bounds
MaxTurns == 2       \* longest conversation plan the model returns
MaxTick == 1        \* largest advance of the clock between two readings
MaxRuns == 1        \* runTest calls per agent
MaxLen == 2         \* longest model output given to extractJSON, in characters
MaxEntries == 2     \* longest array of candidate evaluations

\* ------------------------------------------------------- collaborators' data
Agents == {"a1", "a2"}

\* Human-like messages the model writes (TEST_MESSAGE sections).
Msgs == {"m1", "m2"}

\* Raw responses of the target API.  wellFormed and matchesRule are what the
\* two validators find in the response under the agent's configuration.
Resps == [payload : {"p1", "p2"}, wellFormed : BOOLEAN, matchesRule : BOOLEAN]

NoResp == [payload |-> "none", wellFormed |-> FALSE, matchesRule |-> FALSE]

\* Texts the model returns for the final analysis.
Analyses == {"met", "not met"}

\* Values a rejected call throws.  isError: the value is an instance of Error.
AbortError == [isError |-> TRUE, name |-> "AbortError", message |-> "This operation was aborted"]

NetworkError == [isError |-> TRUE, name |-> "TypeError", message |-> "fetch failed"]

AbortValue == [isError |-> FALSE, name |-> "AbortError", message |-> "aborted"]

ApiErrors == {AbortError, NetworkError, AbortValue}

ModelError == [isError |-> TRUE, name |-> "Error", message |-> "model provider error"]

ModelErrors == {ModelError}

NoError == [isError |-> FALSE, name |-> "none", message |-> "none"]

TimeoutError == [isError |-> TRUE, name |-> "Error", message |-> "API request timed out after 10 seconds"]

\* The conversation plan parsed from the planning text: absent, or a sequence
\* of planned turns (here numbered beats).
Plans == {[present |-> FALSE, turns |-> << >>]} \cup { [present |-> TRUE, turns |-> [i \in 1..n |-> i]] : n \in 0..MaxTurns }

Ticks == 0..MaxTick

\* ------------------------------------------------------------------- state
\* run[a]        the locals of agent a's runTest call and where it stands
\* memory[a]     agent a's BufferMemory: the saved exchanges, oldest first
\* now           the clock Date.now() reads
\* uuid          the number of identifiers uuidv4() has handed out
\* calls[a]      (history) the collaborator calls of the current run, in order
\* fault[a]      (history) the value the rejected call of the current run threw
\* memAtStart[a] (history) memory[a] when the current run was called
\* firstChat[a]  (history) the chat response extracted from the first
\*               target-API response of the current run
\* A call in calls[a] is <<collaborator, planned turn>>, the planned turn 0
\* outside the follow-up loop.
\* runs[a]       the number of runTest calls made on agent a
\* hist[a]       (history) agent a's calls besides runTest: the last call made
\*               on the agent, what the successful runs since the last reset
\*               reported, and what the last getHistory returned and found
\* gt            the generate-tests handler: where a request stands, what the
\*               model answered, what extractJSON did with it, the response
\* ar            the analyze-results handler: where a request stands and
\*               the response
VARIABLES run, memory, now, uuid, calls, fault, memAtStart, firstChat, runs, hist, gt, ar

vars == <<run, memory, now, uuid, calls, fault, memAtStart, firstChat, runs, hist, gt, ar>>

agentVars == <<run, memory, now, uuid, calls, fault, memAtStart, firstChat, runs, hist>>

\* ------------------------------------------------------- pure collaborators
\* ApiHandler.formatInput: the request body built from a test message.
FormatInput(message) == [body |-> message]

\* ConversationHandler.extractChatResponse: the reply text found in a raw
\* response.
ExtractChatResponse(resp) == <<"reply", resp.payload>>

NoChat == <<"reply", "none">>

\* ResponseValidator.validateResponseFormat and validateCondition.
ValidateResponseFormat(resp) == resp.wellFormed

ValidateCondition(resp) == resp.matchesRule

\* ------------------------------------------------------------ runTest parts
TestMessage(id, chatId, role, content, responseTime) ==
    [id |-> id, chatId |-> chatId, role |-> role, content |-> content,
     metrics |-> [responseTime |-> responseTime, validationScore |-> 1]]

\* The two transcript entries of one turn; firstId is the next unused uuid.
TurnEntriesUserOnly(firstId, chatId, human, chat, responseTime) ==
    << TestMessage(firstId, chatId, "user", human, responseTime) >>

TurnEntries(firstId, chatId, human, chat, responseTime) ==
    << TestMessage(firstId, chatId, "user", human, responseTime),
       TestMessage(firstId + 1, chatId, "assistant", chat, responseTime) >>

\* The turns the loop runs: none when the plan is absent or empty.
PlannedTurnsDropLast(plan) ==
    IF plan.present /\ Len(plan.turns) > 0
    THEN SubSeq(plan.turns, 1, Len(plan.turns) - 1) ELSE << >>

PlannedTurns(plan) ==
    IF plan.present /\ Len(plan.turns) > 0 THEN plan.turns ELSE << >>

\* The inner catch of a follow-up turn: what it throws for a caught value.
FollowUpCatchAlwaysTimeout(error) == TimeoutError

FollowUpCatch(error) ==
    IF error.isError /\ error.name = "AbortError" THEN TimeoutError ELSE error

PassedTestEither(formatValid, conditionMet) == formatValid \/ conditionMet

PassedTest(formatValid, conditionMet) == formatValid /\ conditionMet

\* The final analysis prompt: the transcript lines and the two verdicts as
\* the template words them.
AnalysisPrompt(allMessages, formatValid, conditionMet) ==
    [conversation |-> [i \in DOMAIN allMessages |->
                         << IF allMessages[i].role = "user" THEN "Human" ELSE "Assistant",
                            allMessages[i].content >>],
     format |-> IF formatValid THEN "valid" ELSE "invalid",
     condition |-> IF conditionMet THEN "met" ELSE "not met"]

NoPrompt == [conversation |-> << >>, format |-> "none", condition |-> "none"]

NoResult ==
    [conversation |-> [humanMessage |-> "none", rawInput |-> FormatInput("none"),
                       rawOutput |-> NoResp, chatResponse |-> NoChat,
                       allMessages |-> << >>],
     validation |-> [passedTest |-> FALSE, formatValid |-> FALSE, conditionMet |-> FALSE,
                     explanation |-> "none", metrics |-> [responseTime |-> 0]]]

\* The TestResult runTest returns from its locals r.
TestResult(r) ==
    [conversation |-> [humanMessage |-> r.testMessage, rawInput |-> r.formattedInput,
                       rawOutput |-> r.apiResponse, chatResponse |-> r.chatResponse,
                       allMessages |-> r.allMessages],
     validation |-> [passedTest |-> PassedTest(r.formatValid, r.conditionMet),
                     formatValid |-> r.formatValid, conditionMet |-> r.conditionMet,
                     explanation |-> r.analysisResult,
                     metrics |-> [responseTime |-> r.totalResponseTime]]]

\* The locals before runTest's first statement, with two histories of the
\* call: answers, the messages the model wrote and the payloads the target
\* API sent, in the order they arrived, and validated, the arguments the
\* validators were called with.
FreshRun ==
    [pc |-> "idle", testMessage |-> "none", plan |-> [present |-> FALSE, turns |-> << >>],
     turn |-> 0, formattedInput |-> FormatInput("none"), apiResponse |-> NoResp,
     chatResponse |-> NoChat, followUpMessage |-> "none",
     followUpInput |-> FormatInput("none"), startTime |-> 0, totalResponseTime |-> 0,
     chatId |-> 0, allMessages |-> << >>, formatValid |-> FALSE, conditionMet |-> FALSE,
     prompt |-> NoPrompt, analysisResult |-> "none",
     returned |-> FALSE, result |-> NoResult, thrown |-> NoError,
     answers |-> << >>, validated |-> << >>]

\* The outer catch: the run ends, the caught value is thrown to the caller.
RethrowAsPartialResult(r, error) ==
    [r EXCEPT !.pc = "done", !.returned = TRUE, !.result = TestResult(r)]

Rethrow(r, error) == [r EXCEPT !.pc = "failed", !.thrown = error]

\* ----------------------------------------------- generate-tests: the data
\* A model output is a sequence of characters; only the two brackets matter to
\* the search, "x" stands for any other character.
Chars == {"[", "{", "x"}

Texts == UNION { [1..n -> Chars] : n \in 0..MaxLen }

\* JSON values, as JSON.parse builds them, tagged with their type.
Undefined == [type |-> "undefined"]

Null == [type |-> "null"]

Num == [type |-> "number"]

Str(chars) == [type |-> "string", chars |-> chars]

Arr(items) == [type |-> "array", items |-> items]

Envelope(evaluations) == [type |-> "object", evaluations |-> evaluations]

Evaluation(scenario, expectedOutput) ==
    [type |-> "object", scenario |-> scenario, expectedOutput |-> expectedOutput]

EmptyObject == [type |-> "object"]

\* value.name as JavaScript reads it: undefined when the property is absent.
GetField(value, name) ==
    IF value.type = "object" /\ name \in DOMAIN value THEN value[name] ELSE Undefined

\* JavaScript's truthiness of a value.
Truthy(value) ==
    /\ value.type \notin {"undefined", "null"}
    /\ value.type = "string" => Len(value.chars) > 0

Whitespace == {" "}

RECURSIVE TrimStart(_)
TrimStart(chars) ==
    IF chars # << >> /\ Head(chars) \in Whitespace THEN TrimStart(Tail(chars)) ELSE chars

RECURSIVE TrimEnd(_)
TrimEnd(chars) ==
    IF chars # << >> /\ chars[Len(chars)] \in Whitespace
    THEN TrimEnd(SubSeq(chars, 1, Len(chars) - 1)) ELSE chars

\* String.prototype.trim.
Trim(chars) == TrimEnd(TrimStart(chars))

\* Strings a model writes into a field; the last one has whitespace around
\* and inside.
StrSamples == { << >>, <<" ">>, <<"a">>, <<" ", "a", " ", "b", " ">> }

FieldValues == {Undefined, Num} \cup { Str(chars) : chars \in StrSamples }

\* Candidate entries of an evaluations array.
Entries ==
    {Null, Str(<<"a">>), EmptyObject}
    \cup { Evaluation(sc, eo) : sc \in FieldValues, eo \in FieldValues }

\* text.indexOf(char): the 0-based place of the first occurrence, or -1.
IndexOf(text, char) ==
    IF \E i \in DOMAIN text : text[i] = char
    THEN (CHOOSE i \in DOMAIN text :
              text[i] = char /\ \A j \in 1..(i - 1) : text[j] # char) - 1
    ELSE -1

\* text.slice(start).
Slice(text, start) == SubSeq(text, start + 1, Len(text))

\* What jsonrepair and JSON.parse make of the sliced text: jsonrepair throws,
\* JSON.parse throws, or a value is parsed.
RepairThrows == [kind |-> "repairThrows", value |-> Undefined]

ParseThrows == [kind |-> "parseThrows", value |-> Undefined]

Parsed(value) == [kind |-> "parsed", value |-> value]

NotCalled == [kind |-> "notCalled", value |-> Undefined]

\* The place extractJSON slices the text at: the first "[", else the first
\* "{", else -1.
EarliestBracket(text) ==
    IF IndexOf(text, "[") = -1 THEN IndexOf(text, "{")
    ELSE IF IndexOf(text, "{") = -1 THEN IndexOf(text, "[")
    ELSE IF IndexOf(text, "{") < IndexOf(text, "[") THEN IndexOf(text, "{")
    ELSE IndexOf(text, "[")

SliceStart(text) ==
    IF IndexOf(text, "[") # -1 THEN IndexOf(text, "[") ELSE IndexOf(text, "{")

\* The call of jsonrepair: whether it is made, and the text it is given.
RepairCall(text) ==
    IF SliceStart(text) = -1 THEN [called |-> FALSE, text |-> << >>]
    ELSE [called |-> TRUE, text |-> Slice(text, SliceStart(text))]

\* What the library can make of the text sliced at SliceStart: it is not
\* called when there is no bracket, and a text that starts with "[" is
\* repaired to an array or not at all.
CanBeOutcome(text, lib) ==
    IF SliceStart(text) = -1 THEN lib = NotCalled
    ELSE /\ lib # NotCalled
         /\ (lib.kind = "parsed" /\ Head(Slice(text, SliceStart(text))) = "[")
              => lib.value.type = "array"

\* extractJSON(text), lib being what the library makes of the sliced text:
\* whether it threw, and the value it returned.
ExtractJSONNoCatch(text, lib) ==
    IF SliceStart(text) = -1 THEN [threw |-> FALSE, value |-> Envelope(Arr(<< >>))]
    ELSE IF lib.kind \in {"repairThrows", "parseThrows"}
    THEN [threw |-> TRUE, value |-> Undefined]
    ELSE IF lib.value.type = "array" THEN [threw |-> FALSE, value |-> Envelope(lib.value)]
    ELSE [threw |-> FALSE, value |-> lib.value]

ExtractJSON(text, lib) ==
    IF SliceStart(text) = -1 THEN [threw |-> FALSE, value |-> Envelope(Arr(<< >>))]
    ELSE IF lib.kind \in {"repairThrows", "parseThrows"}
    THEN [threw |-> FALSE, value |-> Envelope(Arr(<< >>))]
    ELSE IF lib.value.type = "array" THEN [threw |-> FALSE, value |-> Envelope(lib.value)]
    ELSE [threw |-> FALSE, value |-> lib.value]

\* isValidEvaluation, as the filter reads its result (truthy or not).
IsValidEvaluationAnyString(evaluation) ==
    /\ evaluation.type \in {"object", "array"}
    /\ GetField(evaluation, "scenario").type = "string"
    /\ GetField(evaluation, "expectedOutput").type = "string"

IsValidEvaluation(evaluation) ==
    /\ evaluation.type \in {"object", "array"}
    /\ GetField(evaluation, "scenario").type = "string"
    /\ Len(Trim(GetField(evaluation, "scenario").chars)) > 0
    /\ GetField(evaluation, "expectedOutput").type = "string"
    /\ Len(Trim(GetField(evaluation, "expectedOutput").chars)) > 0

\* The handler's check of extractJSON's value: the candidate entries are its
\* evaluations when that is a truthy array, none otherwise.
Candidates(value) ==
    LET evaluations == GetField(value, "evaluations")
    IN  IF ~Truthy(evaluations) \/ evaluations.type # "array"
        THEN << >> ELSE evaluations.items

\* filter(isValidEvaluation) then map to the trimmed fields.
ValidEvaluations(candidates) ==
    LET kept == SelectSeq(candidates, IsValidEvaluation)
    IN  [i \in DOMAIN kept |->
           [scenario |-> Trim(kept[i].scenario.chars),
            expectedOutput |-> Trim(kept[i].expectedOutput.chars)]]

\* What jsonrepair or JSON.parse throws.
LibraryError == [isError |-> TRUE, name |-> "SyntaxError", message |-> "Unexpected token"]

\* What rejects a request before the model is created: req.json() throws,
\* validateGenerateTestsRequest throws, the API key is not set.
BodySyntaxError == [isError |-> TRUE, name |-> "SyntaxError", message |-> "Unexpected end of JSON input"]

ValidationError == [isError |-> TRUE, name |-> "ZodError", message |-> "Invalid request"]

ApiKeyNotConfigured == [isError |-> TRUE, name |-> "Error", message |-> "API key not configured"]

RequestErrors == {BodySyntaxError, ValidationError, ApiKeyNotConfigured}

\* A request to a handler: its body is not JSON, is JSON the validation
\* rejects, or is valid; and whether what the handler needs to create the
\* model is there (the API key of the environment, the configuration in
\* the headers).
Requests == [body : {"malformed", "invalid", "valid"}, configured : BOOLEAN]

NoRequest == [body |-> "none", configured |-> FALSE]

\* What the statements before the model's creation throw for a request
\* (NoError: nothing): req.json(), validateGenerateTestsRequest, the check
\* of the API key.
RejectionWithoutKeyCheck(req) ==
    IF req.body = "malformed" THEN BodySyntaxError
    ELSE IF req.body = "invalid" THEN ValidationError
    ELSE NoError

Rejection(req) ==
    IF req.body = "malformed" THEN BodySyntaxError
    ELSE IF req.body = "invalid" THEN ValidationError
    ELSE IF ~req.configured THEN ApiKeyNotConfigured
    ELSE NoError

\* What a rejected model invocation throws: an Error, or another value.
RejectedValue == [isError |-> FALSE, name |-> "none", message |-> "overloaded"]

InvocationErrors == ModelErrors \cup {RejectedValue}

\* The check that makes the handler throw 'No valid evaluations generated'.
NoneValidNeverThrows(validEvaluations) == FALSE

NoneValid(validEvaluations) == Len(validEvaluations) = 0

NoValidEvaluations ==
    [isError |-> TRUE, name |-> "Error", message |-> "No valid evaluations generated"]

\* What the handler's catch puts in the details field.
Details(error) == IF error.isError THEN error.message ELSE "Unknown error"

NoStats == [total |-> 0, valid |-> 0, filtered |-> 0]

\* The failure response of the handler's catch.
ErrorResponseWithoutDetails(error) ==
    [status |-> 500, error |-> "Failed to generate evaluations", details |-> "none",
     testCases |-> << >>, stats |-> NoStats]

ErrorResponse(error) ==
    [status |-> 500, error |-> "Failed to generate evaluations", details |-> Details(error),
     testCases |-> << >>, stats |-> NoStats]

\* The success response: the test cases with fresh ids, and the counts.
SuccessResponse(candidates, validEvaluations) ==
    [status |-> 200, error |-> "none", details |-> "none",
     testCases |-> [i \in DOMAIN validEvaluations |->
                      [id |-> i, scenario |-> validEvaluations[i].scenario,
                       expectedOutput |-> validEvaluations[i].expectedOutput]],
     stats |-> [total |-> Len(candidates), valid |-> Len(validEvaluations),
                filtered |-> Len(candidates) - Len(validEvaluations)]]

NoResponse ==
    [status |-> 0, error |-> "none", details |-> "none", testCases |-> << >>, stats |-> NoStats]

\* The code from extractJSON(response) to the response, for a model output
\* text and the library's outcome lib.
Respond(text, lib) ==
    LET extracted == ExtractJSON(text, lib)
        candidates == Candidates(extracted.value)
        validEvaluations == ValidEvaluations(candidates)
    IN  IF extracted.threw THEN ErrorResponse(LibraryError)
        ELSE IF NoneValid(validEvaluations) THEN ErrorResponse(NoValidEvaluations)
        ELSE SuccessResponse(candidates, validEvaluations)

\* What the code from extractJSON(response) on throws (NoError: nothing).
RespondFailure(text, lib) ==
    LET extracted == ExtractJSON(text, lib)
    IN  IF extracted.threw THEN LibraryError
        ELSE IF NoneValid(ValidEvaluations(Candidates(extracted.value))) THEN NoValidEvaluations
        ELSE NoError

\* The handler before a request.  request, created, failure and repair are
\* histories: the request being handled, whether the model was created for
\* it, the value the try block threw, and the call of jsonrepair.
FreshRequest ==
    [pc |-> "idle", invoked |-> FALSE, resolved |-> FALSE, text |-> << >>, lib |-> NotCalled,
     extracted |-> [threw |-> FALSE, value |-> Undefined],
     candidates |-> << >>, http |-> NoResponse,
     request |-> NoRequest, created |-> FALSE, failure |-> NoError,
     repair |-> [called |-> FALSE, text |-> << >>]]

\* --------------------------------------------- analyze-results: the data
\* getLLMConfigForActiveModel(req.headers): the configuration, or null when
\* the headers carry none or an invalid one.
GetLLMConfigForActiveModel(req) == IF req.configured THEN "config" ELSE "null"

\* What req.json() and validateAnalyzeResultsRequest throw for a request
\* (NoError: nothing).
AnalyzeRejection(req) ==
    IF req.body = "malformed" THEN BodySyntaxError
    ELSE IF req.body = "invalid" THEN ValidationError
    ELSE NoError

\* What the chain resolves with: the analysis JsonOutputParser parsed.
AnalysisResults == {[summary |-> "good", insights |-> << >>],
                    [summary |-> "poor", insights |-> <<"slow">>]}

NoAnalysis == [summary |-> "none", insights |-> << >>]

\* What a rejected chain throws: the model's error, the parser's, or a
\* value that is no Error.
ParserError == [isError |-> TRUE, name |-> "OutputParserException", message |-> "Failed to parse"]

AnalysisErrors == InvocationErrors \cup {ParserError}

\* The response to a valid request without a usable configuration.
MissingConfigurationAsServerFailure ==
    [status |-> 500, error |-> "Missing or invalid LLM configuration", analysis |-> NoAnalysis]

MissingConfiguration ==
    [status |-> 400, error |-> "Missing or invalid LLM configuration", analysis |-> NoAnalysis]

\* The failure response of the handler's catch: no details field.
AnalysisFailed ==
    [status |-> 500, error |-> "Failed to analyze results", analysis |-> NoAnalysis]

\* NextResponse.json(analysis): status 200.
AnalysisResponse(analysis) == [status |-> 200, error |-> "none", analysis |-> analysis]

NoAnalysisResponse == [status |-> 0, error |-> "none", analysis |-> NoAnalysis]

\* The handler before a request.  request, created, invoked and failure are
\* histories, as in the generate-tests handler.
FreshAnalysis ==
    [pc |-> "idle", request |-> NoRequest, created |-> FALSE, invoked |-> FALSE,
     failure |-> NoError, http |-> NoAnalysisResponse]

\* The buffer an agent writes and reads: the BufferMemory its constructor
\* made, one for each instance.
OneMemoryForAll(a) == "a1"

MemoryOf(a) == a

\* An agent on which nothing but the constructor has run.
FreshHistory ==
    [lastOp |-> "none", completed |-> << >>, returned |-> << >>,
     prevOp |-> "none", completedAtCall |-> << >>, memAtCall |-> << >>]

Init ==
    /\ run = [a \in Agents |-> FreshRun]
    /\ memory = [a \in Agents |-> << >>]
    /\ now = 0
    /\ uuid = 0
    /\ calls = [a \in Agents |-> << >>]
    /\ fault = [a \in Agents |-> NoError]
    /\ memAtStart = [a \in Agents |-> << >>]
    /\ firstChat = [a \in Agents |-> NoChat]
    /\ runs = [a \in Agents |-> 0]
    /\ hist = [a \in Agents |-> FreshHistory]
    /\ gt = FreshRequest
    /\ ar = FreshAnalysis

\* ---------------------------------------------------------------- runTest
\* A call of runTest: the chain is built and the planning prompt is sent.
StartRun(a, env) ==
    /\ run[a].pc \in {"idle", "done", "failed"}
    /\ runs[a] < env.runs
    /\ run' = [run EXCEPT ![a] = [FreshRun EXCEPT !.pc = "planning"]]
    /\ runs' = [runs EXCEPT ![a] = @ + 1]
    /\ calls' = [calls EXCEPT ![a] = << >>]
    /\ fault' = [fault EXCEPT ![a] = NoError]
    /\ memAtStart' = [memAtStart EXCEPT ![a] = memory[a]]
    /\ firstChat' = [firstChat EXCEPT ![a] = NoChat]
    /\ hist' = [hist EXCEPT ![a].lastOp = "runTest"]
    /\ UNCHANGED <<memory, now, uuid, gt, ar>>

\* A rejected call: the value reaches the outer catch and runTest rethrows it.
Throws(a, call, raised, error) ==
    /\ run' = [run EXCEPT ![a] = Rethrow(@, error)]
    /\ calls' = [calls EXCEPT ![a] = Append(@, call)]
    /\ fault' = [fault EXCEPT ![a] = raised]
    /\ UNCHANGED <<memory, uuid, memAtStart, firstChat, runs, hist, gt, ar>>

\* The planning call resolves: the test message and the plan are parsed, the
\* clock is read and the opening message is sent to the target API.
PlanResolves(a, env) ==
    /\ run[a].pc = "planning"
    /\ \E msg \in env.msgs, plan \in env.plans, d \in env.ticks :
        /\ now' = now + d
        /\ run' = [run EXCEPT ![a] = [@ EXCEPT !.pc = "initialTurn",
                                              !.testMessage = msg,
                                              !.answers = Append(@, msg),
                                              !.plan = plan,
                                              !.allMessages = << >>,
                                              !.totalResponseTime = 0,
                                              !.startTime = now',
                                              !.formattedInput = FormatInput(msg)]]
    /\ calls' = [calls EXCEPT ![a] = Append(@, <<"model", 0>>)]
    /\ UNCHANGED <<memory, uuid, fault, memAtStart, firstChat, runs, hist, gt, ar>>

PlanRejects(a, env) ==
    /\ run[a].pc = "planning"
    /\ \E e \in env.modelErrors, d \in env.ticks :
        /\ now' = now + d
        /\ Throws(a, <<"model", 0>>, e, e)

\* Where the run goes after a turn: the next planned turn's model call, or
\* the validators when no planned turn is left.
AfterTurnValidatesAtOnce(plan, done) == "validating"

AfterTurn(plan, done) ==
    IF done < Len(PlannedTurns(plan)) THEN "followUpModel" ELSE "validating"

\* The opening call resolves: the reply is extracted, the elapsed time added,
\* the chatId drawn and the first two transcript entries pushed.
InitialCallResolves(a, env) ==
    /\ run[a].pc = "initialTurn"
    /\ \E resp \in env.resps, d \in env.ticks :
        LET r == run[a]
            chat == ExtractChatResponse(resp)
            total == r.totalResponseTime + ((now + d) - r.startTime)
            chatId == uuid + 1
        IN  /\ now' = now + d
            /\ uuid' = uuid + 3
            /\ run' = [run EXCEPT ![a] =
                         [@ EXCEPT !.pc = AfterTurn(r.plan, 0),
                                   !.turn = 0,
                                   !.answers = Append(@, resp.payload),
                                   !.apiResponse = resp,
                                   !.chatResponse = chat,
                                   !.totalResponseTime = total,
                                   !.chatId = chatId,
                                   !.allMessages = r.allMessages \o
                                       TurnEntries(uuid + 2, chatId, r.testMessage, chat, total)]]
            /\ firstChat' = [firstChat EXCEPT ![a] = chat]
    /\ calls' = [calls EXCEPT ![a] = Append(@, <<"api", 0>>)]
    /\ UNCHANGED <<memory, fault, memAtStart, runs, hist, gt, ar>>

\* The opening call is outside the inner try: its error is rethrown as it is.
InitialCallRejects(a, env) ==
    /\ run[a].pc = "initialTurn"
    /\ \E e \in env.apiErrors, d \in env.ticks :
        /\ now' = now + d
        /\ Throws(a, <<"api", 0>>, e, e)

\* The planned turn the loop is at, having run r.turn of them.
PlannedTurn(r) == PlannedTurns(r.plan)[r.turn + 1]

\* A follow-up model call resolves: the next human message is parsed, the
\* clock is read and the message is sent to the target API.
FollowUpModelResolves(a, env) ==
    /\ run[a].pc = "followUpModel"
    /\ \E msg \in env.msgs, d \in env.ticks :
        /\ now' = now + d
        /\ run' = [run EXCEPT ![a] = [@ EXCEPT !.pc = "followUpCall",
                                              !.followUpMessage = msg,
                                              !.answers = Append(@, msg),
                                              !.startTime = now',
                                              !.followUpInput = FormatInput(msg)]]
    /\ calls' = [calls EXCEPT ![a] = Append(@, <<"model", PlannedTurn(run[a])>>)]
    /\ UNCHANGED <<memory, uuid, fault, memAtStart, firstChat, runs, hist, gt, ar>>

FollowUpModelRejects(a, env) ==
    /\ run[a].pc = "followUpModel"
    /\ \E e \in env.modelErrors, d \in env.ticks :
        /\ now' = now + d
        /\ Throws(a, <<"model", PlannedTurn(run[a])>>, e, e)

\* A follow-up call resolves.  The clock is read twice, once for the turn's
\* own time and once for the total: it may advance in between.
FollowUpCallResolves(a, env) ==
    /\ run[a].pc = "followUpCall"
    /\ \E resp \in env.resps, d \in env.ticks, between \in env.ticks :
        LET r == run[a]
            chat == ExtractChatResponse(resp)
            firstReading == now + d
            secondReading == firstReading + between
            turnResponseTime == firstReading - r.startTime
            total == r.totalResponseTime + (secondReading - r.startTime)
        IN  /\ now' = secondReading
            /\ uuid' = uuid + 2
            /\ run' = [run EXCEPT ![a] =
                         [@ EXCEPT !.pc = AfterTurn(r.plan, r.turn + 1),
                                   !.turn = r.turn + 1,
                                   !.answers = Append(@, resp.payload),
                                   !.apiResponse = resp,
                                   !.chatResponse = chat,
                                   !.totalResponseTime = total,
                                   !.allMessages = r.allMessages \o
                                       TurnEntries(uuid + 1, r.chatId, r.followUpMessage,
                                                   chat, turnResponseTime)]]
    /\ calls' = [calls EXCEPT ![a] = Append(@, <<"api", PlannedTurn(run[a])>>)]
    /\ UNCHANGED <<memory, fault, memAtStart, firstChat, runs, hist, gt, ar>>

\* A follow-up call rejects inside the inner try.
FollowUpCallRejects(a, env) ==
    /\ run[a].pc = "followUpCall"
    /\ \E e \in env.apiErrors, d \in env.ticks :
        /\ now' = now + d
        /\ Throws(a, <<"api", PlannedTurn(run[a])>>, e, FollowUpCatch(e))

\* The two validators run on apiResponse and the analysis prompt is sent.
Validate(a) ==
    /\ run[a].pc = "validating"
    /\ LET r == run[a]
           formatValid == ValidateResponseFormat(r.apiResponse)
           conditionMet == ValidateCondition(r.apiResponse)
       IN  run' = [run EXCEPT ![a] =
                     [@ EXCEPT !.pc = "analyzing",
                               !.validated = @ \o <<r.apiResponse, r.apiResponse>>,
                               !.formatValid = formatValid,
                               !.conditionMet = conditionMet,
                               !.prompt = AnalysisPrompt(r.allMessages, formatValid, conditionMet)]]
    /\ calls' = [calls EXCEPT ![a] = @ \o << <<"validateResponseFormat", 0>>, <<"validateCondition", 0>> >>]
    /\ UNCHANGED <<memory, now, uuid, fault, memAtStart, firstChat, runs, hist, gt, ar>>

AnalysisResolves(a, env) ==
    /\ run[a].pc = "analyzing"
    /\ \E text \in env.analyses, d \in env.ticks :
        /\ now' = now + d
        /\ run' = [run EXCEPT ![a] = [@ EXCEPT !.pc = "saving", !.analysisResult = text]]
    /\ calls' = [calls EXCEPT ![a] = Append(@, <<"model", 0>>)]
    /\ UNCHANGED <<memory, uuid, fault, memAtStart, firstChat, runs, hist, gt, ar>>

\* What memory.saveContext is given: testMessage and the chatResponse local.
SavedExchange(r) == [input |-> r.testMessage, output |-> r.chatResponse]

\* The analysis call rejects: the outer catch rethrows, the memory is not
\* touched.
AnalysisRejectsAfterSaving(a, env) ==
    /\ run[a].pc = "analyzing"
    /\ \E e \in env.modelErrors, d \in env.ticks :
        /\ now' = now + d
        /\ run' = [run EXCEPT ![a] = Rethrow(@, e)]
        /\ fault' = [fault EXCEPT ![a] = e]
    /\ calls' = [calls EXCEPT ![a] = Append(@, <<"model", 0>>)]
    /\ memory' = [memory EXCEPT ![a] = Append(@, SavedExchange(run[a]))]
    /\ UNCHANGED <<uuid, memAtStart, firstChat, runs, hist, gt, ar>>

AnalysisRejects(a, env) ==
    /\ run[a].pc = "analyzing"
    /\ \E e \in env.modelErrors, d \in env.ticks :
        /\ now' = now + d
        /\ Throws(a, <<"model", 0>>, e, e)

\* What a returned TestResult reports of the exchange: the human message
\* and the chat response of its conversation record.
Reported(result) ==
    [humanMessage |-> result.conversation.humanMessage,
     chatResponse |-> result.conversation.chatResponse]

\* The exchange is saved and the TestResult returned.
SaveAndReturn(a) ==
    /\ run[a].pc = "saving"
    /\ memory' = [memory EXCEPT ![MemoryOf(a)] = Append(@, SavedExchange(run[a]))]
    /\ run' = [run EXCEPT ![a] = [@ EXCEPT !.pc = "done", !.returned = TRUE,
                                          !.result = TestResult(run[a])]]
    /\ calls' = [calls EXCEPT ![a] = Append(@, <<"saveContext", 0>>)]
    /\ hist' = [hist EXCEPT ![a].completed = Append(@, Reported(TestResult(run[a])))]
    /\ UNCHANGED <<now, uuid, fault, memAtStart, firstChat, runs, gt, ar>>

\* ------------------------------------------------- getHistory and reset
\* The messages of the buffer: saveContext stores an exchange as a human
\* message followed by an AI message.
HumanMessage(content) == [role |-> "human", content |-> content]

AIMessage(content) == [role |-> "ai", content |-> content]

RECURSIVE ChatHistory(_)
\* loadMemoryVariables under returnMessages: true and memoryKey
\* "chat_history": the saved exchanges as messages, oldest first.
ChatHistory(buffer) ==
    IF buffer = << >> THEN << >>
    ELSE <<HumanMessage(buffer[1].input), AIMessage(buffer[1].output)>> \o ChatHistory(Tail(buffer))

\* The calls made on an agent one after the other: getHistory and reset
\* are called when no runTest of the agent is under way.
Between(a) == run[a].pc \in {"idle", "done", "failed"}

\* getHistory: the buffer is read and returned (chat_history || []: an empty
\* array is truthy and is returned as it is); nothing is written.
GetHistory(a) ==
    /\ Between(a)
    /\ hist' = [hist EXCEPT ![a] =
                  [@ EXCEPT !.lastOp = "getHistory",
                            !.prevOp = hist[a].lastOp,
                            !.returned = ChatHistory(memory[MemoryOf(a)]),
                            !.completedAtCall = hist[a].completed,
                            !.memAtCall = memory[a]]]
    /\ UNCHANGED <<run, memory, now, uuid, calls, fault, memAtStart, firstChat, runs, gt, ar>>

\* What memory.clear() leaves of the buffer.
ClearKeepsBuffer(buffer) == buffer

Clear(buffer) == << >>

\* reset: the buffer is cleared.
Reset(a) ==
    /\ Between(a)
    /\ memory' = [memory EXCEPT ![MemoryOf(a)] = Clear(@)]
    /\ hist' = [hist EXCEPT ![a] = [@ EXCEPT !.lastOp = "reset", !.completed = << >>]]
    /\ UNCHANGED <<run, now, uuid, calls, fault, memAtStart, firstChat, runs, gt, ar>>

RunTest(a, env) ==
    \/ StartRun(a, env)
    \/ PlanResolves(a, env)
    \/ PlanRejects(a, env)
    \/ InitialCallResolves(a, env)
    \/ InitialCallRejects(a, env)
    \/ FollowUpModelResolves(a, env)
    \/ FollowUpModelRejects(a, env)
    \/ FollowUpCallResolves(a, env)
    \/ FollowUpCallRejects(a, env)
    \/ Validate(a)
    \/ AnalysisResolves(a, env)
    \/ AnalysisRejects(a, env)
    \/ SaveAndReturn(a)

\* ---------------------------------------------------------- specifications
\* What the collaborators may answer.  Conversations: every message, plan,
\* response and failure, on a clock that stands still.  Timings: one message
\* and one response, on a clock that advances between any two readings.
Conversations ==
    [msgs |-> Msgs, plans |-> Plans, resps |-> Resps, analyses |-> Analyses,
     ticks |-> {0}, apiErrors |-> ApiErrors, modelErrors |-> ModelErrors, runs |-> MaxRuns]

Timings ==
    [msgs |-> {"m1"}, plans |-> Plans,
     resps |-> {[payload |-> "p1", wellFormed |-> TRUE, matchesRule |-> TRUE]},
     analyses |-> {"met"}, ticks |-> Ticks, apiErrors |-> {AbortError},
     modelErrors |-> ModelErrors, runs |-> 1]

\* One agent runs tests.
Next == RunTest("a1", Conversations)

Spec == Init /\ [][Next]_vars

NextClock == RunTest("a1", Timings)

SpecClock == Init /\ [][NextClock]_vars

\* Plans of at most one follow-up turn.
ShortPlans == {plan \in Plans : Len(plan.turns) <= 1}

\* Two responses that differ in everything.
TwoResps == {[payload |-> "p1", wellFormed |-> TRUE, matchesRule |-> TRUE],
             [payload |-> "p2", wellFormed |-> FALSE, matchesRule |-> FALSE]}

\* Histories: one more runTest call than elsewhere, of short conversations.
Histories ==
    [msgs |-> Msgs, plans |-> ShortPlans, resps |-> TwoResps, analyses |-> {"met"},
     ticks |-> {0}, apiErrors |-> {NetworkError}, modelErrors |-> ModelErrors,
     runs |-> MaxRuns + 1]

\* One agent is called again and again: runTest, getHistory and reset.
NextMemory ==
    \/ RunTest("a1", Histories)
    \/ GetHistory("a1")
    \/ Reset("a1")

SpecMemory == Init /\ [][NextMemory]_vars

\* Pairs: short conversations, one runTest call on each agent.
Pairs ==
    [msgs |-> Msgs, plans |-> ShortPlans, resps |-> TwoResps, analyses |-> {"met"},
     ticks |-> {0}, apiErrors |-> {AbortError}, modelErrors |-> ModelErrors,
     runs |-> 1]

\* Two agents run tests at the same time: a step of either at each await.
NextPair == \E a \in Agents : RunTest(a, Pairs)

SpecPair == Init /\ [][NextPair]_vars

\* ------------------------------------------------------- claims on runTest
\* The number N of follow-up turns of a parsed plan (0 when it is absent).
FollowUps(plan) == IF plan.present THEN Len(plan.turns) ELSE 0

Returned(a) == run[a].returned

\* C1: a returned conversation.allMessages has exactly 2*(N+1) entries for a
\* plan of N follow-up turns, the roles alternate user, assistant, ... from
\* user, and every entry carries the same chatId.
C1_TranscriptShape ==
    \A a \in Agents : Returned(a) =>
        LET all == run[a].result.conversation.allMessages
        IN  /\ Len(all) = 2 * (FollowUps(run[a].plan) + 1)
            /\ \A i \in DOMAIN all :
                   all[i].role = (IF i % 2 = 1 THEN "user" ELSE "assistant")
            /\ \A i \in DOMAIN all : all[i].chatId = all[1].chatId

C1_Witness ==
    \E a \in Agents :
        /\ Returned(a)
        /\ FollowUps(run[a].plan) = 2
        /\ Len(run[a].result.conversation.allMessages) = 6

\* The code's classification of a thrown value as a timeout.
IsTimeout(error) == error.isError /\ error.name = "AbortError"

\* C2: once a model invocation or a target-API call has failed, the run has
\* ended in failure: nothing is returned, no partial TestResult either, and
\* an error is thrown to the caller (the failed call's own, or the timeout
\* error a follow-up turn puts in the place of an AbortError).
C2_FailureFailsTheRun ==
    \A a \in Agents : fault[a] # NoError =>
        /\ run[a].pc = "failed"
        /\ ~run[a].returned
        /\ run[a].result = NoResult
        /\ run[a].thrown # NoError
        /\ \/ run[a].thrown = fault[a]
           \/ run[a].thrown = TimeoutError /\ IsTimeout(fault[a]) /\ Len(run[a].allMessages) >= 2

\* A failure after two turns were completed: a partial result was at hand.
C2_Witness ==
    \E a \in Agents :
        /\ fault[a] # NoError
        /\ run[a].pc = "failed"
        /\ Len(run[a].allMessages) = 4

\* C3 (as claimed): after a successful run the memory has gained exactly one
\* exchange, the first human message with the chat response extracted from
\* the first target-API response.
C3_SavesInitialExchange ==
    \A a \in Agents : run[a].pc = "done" =>
        memory[a] = Append(memAtStart[a],
                           [input |-> run[a].testMessage, output |-> firstChat[a]])

\* The run failed in the target-API call of a follow-up turn.
FollowUpCallFailed(a) ==
    /\ fault[a] # NoError
    /\ Len(calls[a]) >= 4
    /\ calls[a][Len(calls[a])][1] = "api"

\* C4: a follow-up target-API failure classified as a timeout fails the run
\* with the explicit timeout error, any other failure of that call reaches the
\* caller as the very same value; either way nothing is returned and no later
\* turn, validation or analysis step runs.
C4_FollowUpFailure ==
    \A a \in Agents : FollowUpCallFailed(a) =>
        /\ run[a].thrown = (IF IsTimeout(fault[a]) THEN TimeoutError ELSE fault[a])
        /\ run[a].thrown.message = (IF IsTimeout(fault[a])
                                     THEN "API request timed out after 10 seconds"
                                     ELSE fault[a].message)
        /\ run[a].pc = "failed"
        /\ ~run[a].returned
        /\ \A i \in DOMAIN calls[a] :
               calls[a][i][1] \notin {"validateResponseFormat", "validateCondition", "saveContext"}
        /\ Len(calls[a]) = Len(run[a].allMessages) + 2
        /\ run[a].prompt = NoPrompt

C4_Witness ==
    \E a \in Agents :
        /\ FollowUpCallFailed(a)
        /\ fault[a] = AbortError
        /\ run[a].thrown = TimeoutError
        /\ FollowUps(run[a].plan) = 2
        /\ Len(run[a].allMessages) = 2

\* C5: in every returned TestResult passedTest is true exactly when
\* formatValid and conditionMet both are, and these two are the verdicts the
\* final analysis prompt reported to the model.
C5_PassedTest ==
    \A a \in Agents : Returned(a) =>
        LET v == run[a].result.validation
        IN  /\ v.passedTest = (v.formatValid /\ v.conditionMet)
            /\ v.formatValid = (run[a].prompt.format = "valid")
            /\ v.conditionMet = (run[a].prompt.condition = "met")
            /\ run[a].prompt.format \in {"valid", "invalid"}
            /\ run[a].prompt.condition \in {"met", "not met"}

C5_Witness ==
    \E a \in Agents :
        /\ Returned(a)
        /\ run[a].result.validation.formatValid
        /\ ~run[a].result.validation.conditionMet
        /\ ~run[a].result.validation.passedTest

\* The calls of a successful run with the given plan, in order.
ExpectedCalls(plan) ==
    LET n == FollowUps(plan)
        loop == [i \in 1..(2 * n) |->
                   IF i % 2 = 1 THEN <<"model", plan.turns[(i + 1) \div 2]>>
                                ELSE <<"api", plan.turns[i \div 2]>>]
    IN  << <<"model", 0>>, <<"api", 0>> >> \o loop \o
        << <<"validateResponseFormat", 0>>, <<"validateCondition", 0>>,
           <<"model", 0>>, <<"saveContext", 0>> >>

IsPrefix(s, t) == Len(s) <= Len(t) /\ SubSeq(t, 1, Len(s)) = s

CountCalls(log, what) == Cardinality({i \in DOMAIN log : log[i][1] = what})

\* C6: the calls of a run are made in the order planning model call, opening
\* target-API call, per planned turn in plan order one model call then one
\* target-API call, the two validators, the analysis model call, the memory
\* save; a successful run with N planned turns makes all of them, so N+2 model
\* calls and N+1 target-API calls, and a failed run stops at the failed call.
C6_CallOrder ==
    \A a \in Agents :
        /\ IsPrefix(calls[a], ExpectedCalls(run[a].plan))
        /\ run[a].pc = "done" =>
              /\ calls[a] = ExpectedCalls(run[a].plan)
              /\ CountCalls(calls[a], "model") = FollowUps(run[a].plan) + 2
              /\ CountCalls(calls[a], "api") = FollowUps(run[a].plan) + 1
        /\ run[a].pc = "failed" =>
              /\ fault[a] # NoError
              /\ Len(calls[a]) < Len(ExpectedCalls(run[a].plan))

C6_Witness ==
    \E a \in Agents :
        /\ run[a].pc = "done"
        /\ FollowUps(run[a].plan) = 2
        /\ Len(calls[a]) = 10

RECURSIVE TurnTimeSum(_, _)
\* The sum of the responseTime values of the first n turns of a transcript,
\* one value per user/assistant pair.
TurnTimeSum(all, n) ==
    IF n = 0 THEN 0 ELSE TurnTimeSum(all, n - 1) + all[2 * n - 1].metrics.responseTime

\* C10 (as claimed): validation.metrics.responseTime of a returned TestResult
\* is the sum of the per-turn responseTime values of its transcript.
C10_ResponseTimeIsSum ==
    \A a \in Agents : Returned(a) =>
        LET all == run[a].result.conversation.allMessages
        IN  run[a].result.validation.metrics.responseTime = TurnTimeSum(all, Len(all) \div 2)

Validators == {"validateResponseFormat", "validateCondition"}

\* C16: a run calls each validator once, after the target-API calls of the
\* opening turn and of every planned turn, and gives both the raw response of
\* the last turn (the opening turn's when no turn is planned): the response
\* whose payload came last and whose reply ends the transcript.  The two
\* verdicts are what the validators find in that response; no validator runs
\* before the last turn.
C16_ValidatesLastResponse ==
    \A a \in Agents :
        LET r == run[a]
            log == calls[a]
        IN  /\ r.validated = << >> =>
                  \A i \in DOMAIN log : log[i][1] \notin Validators
            /\ r.validated # << >> =>
                  /\ Len(r.validated) = 2
                  /\ r.validated[1] = r.validated[2]
                  /\ CountCalls(log, "validateResponseFormat") = 1
                  /\ CountCalls(log, "validateCondition") = 1
                  /\ CountCalls(log, "api") = FollowUps(r.plan) + 1
                  /\ \A i, j \in DOMAIN log :
                         (log[i][1] = "api" /\ log[j][1] \in Validators) => i < j
                  /\ Len(r.answers) = 2 * (FollowUps(r.plan) + 1)
                  /\ r.validated[1].payload = r.answers[Len(r.answers)]
                  /\ r.allMessages[Len(r.allMessages)].content = <<"reply", r.validated[1].payload>>
                  /\ r.formatValid = r.validated[1].wellFormed
                  /\ r.conditionMet = r.validated[1].matchesRule

\* Two follow-up turns; the opening response would pass both validators,
\* the last one passes neither, and the run reports neither passed.
C16_Witness ==
    \E a \in Agents :
        /\ Returned(a)
        /\ FollowUps(run[a].plan) = 2
        /\ run[a].answers[2] = "p1"
        /\ run[a].answers[6] = "p2"
        /\ run[a].validated = << [payload |-> "p2", wellFormed |-> FALSE, matchesRule |-> FALSE],
                                 [payload |-> "p2", wellFormed |-> FALSE, matchesRule |-> FALSE] >>
        /\ ~run[a].result.validation.formatValid
        /\ ~run[a].result.validation.conditionMet

\* C18: while a runTest call is the last call made on the agent, the memory
\* is what it was when the call was made unless the run has succeeded: a run
\* that failed, at whatever step, has left it as it was, a run under way has
\* not written it yet, and a run that succeeded has appended one exchange as
\* its last step, after all its model and target-API calls succeeded.
C18_FailedRunLeavesMemory ==
    \A a \in Agents : hist[a].lastOp = "runTest" =>
        /\ run[a].pc # "done" =>
              /\ memory[a] = memAtStart[a]
              /\ CountCalls(calls[a], "saveContext") = 0
        /\ run[a].pc = "failed" => fault[a] # NoError
        /\ run[a].pc = "done" =>
              /\ fault[a] = NoError
              /\ Len(memory[a]) = Len(memAtStart[a]) + 1
              /\ SubSeq(memory[a], 1, Len(memAtStart[a])) = memAtStart[a]
              /\ calls[a][Len(calls[a])] = <<"saveContext", 0>>
              /\ CountCalls(calls[a], "saveContext") = 1
              /\ CountCalls(calls[a], "model") = FollowUps(run[a].plan) + 2
              /\ CountCalls(calls[a], "api") = FollowUps(run[a].plan) + 1

\* The second run failed in the final analysis call, after the validators:
\* the memory still holds the first run's exchange and nothing else.
C18_Witness ==
    \E a \in Agents :
        /\ hist[a].lastOp = "runTest"
        /\ run[a].pc = "failed"
        /\ CountCalls(calls[a], "validateCondition") = 1
        /\ Len(memAtStart[a]) = 1
        /\ memory[a] = memAtStart[a]

\* The run failed in a target-API call that threw an AbortError.
ApiCallTimedOut(a) ==
    /\ run[a].pc = "failed"
    /\ IsTimeout(fault[a])
    /\ calls[a][Len(calls[a])][1] = "api"

\* C19 (as claimed): a target-API call that times out fails the run with the
\* explicit timeout error 'API request timed out after 10 seconds', in the
\* opening turn as in a follow-up turn.
C19_TimeoutSameInEveryTurn ==
    \A a \in Agents : ApiCallTimedOut(a) =>
        /\ run[a].thrown = TimeoutError
        /\ run[a].thrown.message = "API request timed out after 10 seconds"

\* C20 (as claimed): the four summary fields of a returned conversation are
\* the opening turn's: the message sent, the request body made of it, the
\* raw response to it and the reply extracted from that response, the
\* message and the reply being the first two entries of allMessages.
C20_SummaryIsInitialTurn ==
    \A a \in Agents : Returned(a) =>
        LET c == run[a].result.conversation
        IN  /\ c.humanMessage = c.allMessages[1].content
            /\ c.rawInput = FormatInput(c.allMessages[1].content)
            /\ c.rawOutput.payload = run[a].answers[2]
            /\ c.chatResponse = c.allMessages[2].content
            /\ c.chatResponse = firstChat[a]

\* What getHistory returns for the given reports of successful runs: for
\* each, in order, the human message the run opened with and the reply
\* the run reported.
RECURSIVE ExchangesOf(_)
ExchangesOf(results) ==
    IF results = << >> THEN << >>
    ELSE << [role |-> "human", content |-> results[1].humanMessage],
            [role |-> "ai", content |-> results[1].chatResponse] >>
         \o ExchangesOf(Tail(results))

\* C11: getHistory returns the exchanges of the successful runs since the
\* last reset (or since construction) in the order the runs completed, each
\* as a human message followed by an AI message; called right after reset
\* it returns the empty sequence; it leaves the memory as it found it, and
\* reset leaves it empty.
C11_HistoryIsSavedExchanges ==
    \A a \in Agents :
        /\ hist[a].lastOp = "getHistory" =>
              /\ hist[a].returned = ExchangesOf(hist[a].completedAtCall)
              /\ Len(hist[a].returned) = 2 * Len(hist[a].completedAtCall)
              /\ hist[a].prevOp = "reset" => hist[a].returned = << >>
              /\ memory[a] = hist[a].memAtCall
        /\ hist[a].lastOp = "reset" => memory[a] = << >>

\* A run succeeded, the agent was reset, another run succeeded with other
\* content, and getHistory returned the second run's exchange alone.
C11_Witness ==
    \E a \in Agents :
        /\ hist[a].lastOp = "getHistory"
        /\ runs[a] = 2
        /\ Len(memAtStart[a]) = 0
        /\ Len(hist[a].returned) = 2
        /\ hist[a].returned[1].content = "m2"

\* The roles and contents of the transcript a run alone builds from the
\* given answers: each message of the model as a user entry, each payload
\* of the target API as the assistant entry that follows it.
AloneTranscript(answers) ==
    [i \in 1..(2 * (Len(answers) \div 2)) |->
        IF i % 2 = 1 THEN [role |-> "user", content |-> answers[i]]
                     ELSE [role |-> "assistant", content |-> <<"reply", answers[i]>>]]

\* The exchange a run alone saves: its first message, its last reply.
AloneExchange(answers) ==
    [input |-> answers[1], output |-> <<"reply", answers[Len(answers)]>>]

RolesAndContents(all) == [i \in DOMAIN all |-> [role |-> all[i].role, content |-> all[i].content]]

Identifiers(all) == {all[i].id : i \in DOMAIN all} \cup {all[i].chatId : i \in DOMAIN all}

\* C12: whatever the interleaving of the runs of two agents, the transcript a
\* run has built holds the messages of its own answers and no other, in turn
\* order, under one chatId that no other run uses; its identifiers are its
\* own; and an agent's memory holds what its own run saved, nothing of the
\* other's: all as the run alone would have left them.
C12_RunsAreIsolated ==
    \A a \in Agents :
        /\ RolesAndContents(run[a].allMessages) = AloneTranscript(run[a].answers)
        /\ \A i \in DOMAIN run[a].allMessages : run[a].allMessages[i].chatId = run[a].chatId
        /\ Returned(a) => run[a].result.conversation.allMessages = run[a].allMessages
        /\ memory[a] = (IF run[a].pc = "done"
                        THEN Append(memAtStart[a], AloneExchange(run[a].answers))
                        ELSE memAtStart[a])
        /\ \A b \in Agents \ {a} :
               Identifiers(run[a].allMessages) \cap Identifiers(run[b].allMessages) = {}

\* Both runs returned, their steps interleaved (the second run's opening
\* call resolved before the first's), with different conversations.
C12_Witness ==
    /\ Returned("a1") /\ Returned("a2")
    /\ run["a2"].chatId < run["a1"].chatId
    /\ run["a1"].answers = <<"m1", "p1", "m2", "p2">>
    /\ run["a2"].answers = <<"m2", "p2">>
    /\ memory["a1"] # memory["a2"]

\* ------------------------------------------------- generate-tests: POST
\* A request is rejected before the model is created.
PostRejects ==
    /\ gt.pc \in {"idle", "responded"}
    /\ \E req \in Requests :
        /\ Rejection(req) \in RequestErrors
        /\ gt' = [FreshRequest EXCEPT !.pc = "responded", !.request = req,
                                      !.failure = Rejection(req),
                                      !.http = ErrorResponse(Rejection(req))]
    /\ UNCHANGED <<agentVars, ar>>

\* A valid request with the API key set: the model is created and invoked.
PostInvokes ==
    /\ gt.pc \in {"idle", "responded"}
    /\ \E req \in Requests :
        /\ Rejection(req) = NoError
        /\ gt' = [FreshRequest EXCEPT !.pc = "invoking", !.request = req,
                                      !.created = TRUE, !.invoked = TRUE]
    /\ UNCHANGED <<agentVars, ar>>

\* The model invocation rejects.
InvokeRejects ==
    /\ gt.pc = "invoking"
    /\ \E e \in InvocationErrors :
        gt' = [gt EXCEPT !.pc = "responded", !.failure = e, !.http = ErrorResponse(e)]
    /\ UNCHANGED <<agentVars, ar>>

\* The model invocation resolved with text, and lib is what the library makes
\* of it: extractJSON, the structure check, the filter and the response, with
\* no await in between.
Responds(text, lib) ==
    /\ CanBeOutcome(text, lib)
    /\ gt' = [gt EXCEPT !.pc = "responded",
                        !.resolved = TRUE,
                        !.text = text,
                        !.lib = lib,
                        !.extracted = ExtractJSON(text, lib),
                        !.candidates = Candidates(ExtractJSON(text, lib).value),
                        !.failure = RespondFailure(text, lib),
                        !.repair = RepairCall(text),
                        !.http = Respond(text, lib)]

\* A valid evaluation whose expectedOutput has whitespace around and inside.
GoodEvaluation == Evaluation(Str(<<"a">>), Str(<<" ", "a", " ", "b", " ">>))

\* What the library does besides parsing an array or an envelope of entries:
\* it is not called, it throws, or it parses an object of another shape.
OtherOutcomes ==
    {NotCalled, RepairThrows, ParseThrows}
    \cup { Parsed(v) : v \in { Envelope(Str(<<"a">>)), Envelope(Str(<< >>)), Envelope(Null),
                              Envelope(Num), Envelope(GoodEvaluation), EmptyObject,
                              GoodEvaluation } }

\* The model invocation resolves.
InvokeResolves(env) ==
    /\ gt.pc = "invoking"
    /\ \E text \in env.texts :
        \/ \E lib \in OtherOutcomes : Responds(text, lib)
        \/ \E n \in 0..MaxEntries, enveloped \in BOOLEAN :
             \E items \in [1..n -> env.entries] :
                Responds(text, Parsed(IF enveloped THEN Envelope(Arr(items)) ELSE Arr(items)))
    /\ UNCHANGED <<agentVars, ar>>

Post(env) ==
    \/ PostRejects
    \/ PostInvokes
    \/ InvokeRejects
    \/ InvokeResolves(env)

\* ------------------------------------------------ analyze-results: POST
\* req.json() or validateAnalyzeResultsRequest throws: the catch responds.
AnalyzeRejects ==
    /\ ar.pc \in {"idle", "responded"}
    /\ \E req \in Requests :
        /\ AnalyzeRejection(req) # NoError
        /\ ar' = [FreshAnalysis EXCEPT !.pc = "responded", !.request = req,
                                       !.failure = AnalyzeRejection(req),
                                       !.http = AnalysisFailed]
    /\ UNCHANGED <<agentVars, gt>>

\* The body is valid and there is no configuration: the handler returns the
\* client error from inside the try block.
AnalyzeUnconfigured ==
    /\ ar.pc \in {"idle", "responded"}
    /\ \E req \in Requests :
        /\ AnalyzeRejection(req) = NoError
        /\ GetLLMConfigForActiveModel(req) = "null"
        /\ ar' = [FreshAnalysis EXCEPT !.pc = "responded", !.request = req,
                                       !.http = MissingConfiguration]
    /\ UNCHANGED <<agentVars, gt>>

\* The body is valid and there is a configuration: the model is created and
\* the chain invoked.
AnalyzeInvokes ==
    /\ ar.pc \in {"idle", "responded"}
    /\ \E req \in Requests :
        /\ AnalyzeRejection(req) = NoError
        /\ GetLLMConfigForActiveModel(req) # "null"
        /\ ar' = [FreshAnalysis EXCEPT !.pc = "invoking", !.request = req,
                                       !.created = TRUE, !.invoked = TRUE]
    /\ UNCHANGED <<agentVars, gt>>

\* The chain rejects: the catch responds.
AnalyzeInvokeRejects ==
    /\ ar.pc = "invoking"
    /\ \E e \in AnalysisErrors :
        ar' = [ar EXCEPT !.pc = "responded", !.failure = e, !.http = AnalysisFailed]
    /\ UNCHANGED <<agentVars, gt>>

\* The chain resolves: the analysis is the response.
AnalyzeInvokeResolves ==
    /\ ar.pc = "invoking"
    /\ \E analysis \in AnalysisResults :
        ar' = [ar EXCEPT !.pc = "responded", !.http = AnalysisResponse(analysis)]
    /\ UNCHANGED <<agentVars, gt>>

AnalyzePost ==
    \/ AnalyzeRejects
    \/ AnalyzeUnconfigured
    \/ AnalyzeInvokes
    \/ AnalyzeInvokeRejects
    \/ AnalyzeInvokeResolves

\* Every model output up to MaxLen characters, with arrays of a few entries.
Extraction == [texts |-> Texts, entries |-> {GoodEvaluation, EmptyObject}]

\* A few model outputs, with arrays of every entry.
Filtering == [texts |-> { <<"x">>, <<"[">>, <<"x", "{">> }, entries |-> Entries]

NextGen == Post(Extraction)

SpecGen == Init /\ [][NextGen]_vars

NextFilter == Post(Filtering)

SpecFilter == Init /\ [][NextFilter]_vars

\* The two handlers serve requests, each at its own pace.
NextHandlers ==
    \/ Post(Extraction)
    \/ AnalyzePost

SpecHandlers == Init /\ [][NextHandlers]_vars

\* ------------------------------------------------ claims on generate-tests
\* The model answered and the handler has responded.
Answered == gt.pc = "responded" /\ gt.resolved

Succeeded == gt.http.status = 200

\* The text holds neither bracket.
NoStructure(text) == \A i \in DOMAIN text : text[i] \notin {"[", "{"}

HasContent(value) ==
    value.type = "string" /\ \E i \in DOMAIN value.chars : value.chars[i] \notin Whitespace

\* An entry with a scenario and an expectedOutput that are strings with some
\* character that is not whitespace.
WellFormedEntry(entry) ==
    /\ entry.type = "object"
    /\ "scenario" \in DOMAIN entry
    /\ "expectedOutput" \in DOMAIN entry
    /\ HasContent(entry.scenario)
    /\ HasContent(entry.expectedOutput)

\* The candidate entries the library's outcome holds: the parsed array, or the
\* array under the evaluations key of the parsed object; none otherwise.
CandidateEntries(lib) ==
    IF lib.kind # "parsed" THEN << >>
    ELSE IF lib.value.type = "array" THEN lib.value.items
    ELSE IF /\ lib.value.type = "object"
            /\ "evaluations" \in DOMAIN lib.value
            /\ lib.value.evaluations.type = "array"
    THEN lib.value.evaluations.items
    ELSE << >>

\* C7: the handler never answers with a success whose testCases is empty; when
\* the model output yields no valid evaluation (no JSON found, unparsable,
\* evaluations missing or not an array, only invalid entries) the response is
\* the failure with details 'No valid evaluations generated' and a failure
\* status.
C7_NoEmptySuccess ==
    /\ ~(gt.http.status = 200 /\ gt.http.testCases = << >>)
    /\ (Answered /\ \A i \in DOMAIN CandidateEntries(gt.lib) :
                        ~WellFormedEntry(CandidateEntries(gt.lib)[i]))
         => /\ gt.http.status >= 400
            /\ gt.http.details = "No valid evaluations generated"
            /\ gt.http.testCases = << >>

\* Two candidate entries, none valid.
C7_Witness ==
    /\ Answered
    /\ Len(CandidateEntries(gt.lib)) = 2
    /\ \A i \in DOMAIN CandidateEntries(gt.lib) : ~WellFormedEntry(CandidateEntries(gt.lib)[i])
    /\ gt.http.status = 500
    /\ gt.http.details = "No valid evaluations generated"

Spaces(n) == [i \in 1..n |-> " "]

\* trimmed is chars without its leading and trailing whitespace.
IsTrimOf(trimmed, chars) ==
    /\ trimmed # << >> => trimmed[1] \notin Whitespace /\ trimmed[Len(trimmed)] \notin Whitespace
    /\ \E before \in 0..Len(chars), after \in 0..Len(chars) :
          chars = Spaces(before) \o trimmed \o Spaces(after)

\* C8: in a success response every test case's scenario and expectedOutput are
\* non-empty and equal to their own trimmed form, the test cases are the valid
\* candidate entries (trimmed) in their original order, and the stats satisfy
\* valid + filtered = total, total the number of candidates and valid the
\* number of test cases.
C8_FilteredTestCases ==
    (Answered /\ Succeeded) =>
        LET cases == gt.http.testCases
            stats == gt.http.stats
            entries == CandidateEntries(gt.lib)
            valid == SelectSeq(entries, WellFormedEntry)
        IN  /\ \A i \in DOMAIN cases :
                 /\ cases[i].scenario # << >>
                 /\ cases[i].expectedOutput # << >>
                 /\ IsTrimOf(cases[i].scenario, cases[i].scenario)
                 /\ IsTrimOf(cases[i].expectedOutput, cases[i].expectedOutput)
            /\ Len(cases) = Len(valid)
            /\ \A i \in DOMAIN cases :
                 /\ IsTrimOf(cases[i].scenario, valid[i].scenario.chars)
                 /\ IsTrimOf(cases[i].expectedOutput, valid[i].expectedOutput.chars)
            /\ stats.valid + stats.filtered = stats.total
            /\ stats.total = Len(entries)
            /\ stats.valid = Len(cases)

\* The candidates [{scenario, expectedOutput}, {}]: valid 1, filtered 1, total 2.
C8_Witness ==
    /\ Answered
    /\ Succeeded
    /\ CandidateEntries(gt.lib) = <<GoodEvaluation, EmptyObject>>
    /\ gt.http.stats = [total |-> 2, valid |-> 1, filtered |-> 1]
    /\ gt.http.testCases[1].expectedOutput = <<"a", " ", "b">>

IsEnvelope(value) ==
    /\ value.type = "object"
    /\ "evaluations" \in DOMAIN value
    /\ value.evaluations.type = "array"

\* C9 (as claimed): extractJSON never throws and returns an envelope object
\* whose evaluations field holds a sequence.
C9_AlwaysEnvelope ==
    Answered => ~gt.extracted.threw /\ IsEnvelope(gt.extracted.value)

\* C9 (amended): extractJSON never throws; it returns {evaluations: []} when
\* the text holds no bracket or the repair or the parse fails, {evaluations:
\* parsed} when the parsed value is an array, and any other parsed value as it
\* is; the candidates the handler then filters are a sequence in every case.
C9_TotalExtraction ==
    Answered =>
        /\ ~gt.extracted.threw
        /\ (NoStructure(gt.text) \/ gt.lib.kind \in {"repairThrows", "parseThrows"})
             => gt.extracted.value = Envelope(Arr(<< >>))
        /\ (gt.lib.kind = "parsed" /\ gt.lib.value.type = "array")
             => gt.extracted.value = Envelope(gt.lib.value)
        /\ (gt.lib.kind = "parsed" /\ gt.lib.value.type # "array")
             => gt.extracted.value = gt.lib.value
        /\ gt.candidates = CandidateEntries(gt.lib)
        /\ DOMAIN gt.candidates = 1..Len(gt.candidates)

\* The parse fails on a text sliced at a "{" that follows other characters.
C9_Witness ==
    /\ Answered
    /\ gt.lib = ParseThrows
    /\ gt.text = <<"x", "{">>
    /\ gt.extracted.value = Envelope(Arr(<< >>))
    /\ gt.http.status = 500

\* ------------------------------------------------- claims on both handlers
\* The request passed the validation and the credential or configuration
\* check.
Accepted(req) == req.body = "valid" /\ req.configured

\* C13: in both handlers the model is created and invoked only for a request
\* whose body passed validation and whose credential or configuration check
\* passed; a request rejected by either check has been answered with an
\* error response, the model neither created nor invoked for it.
C13_ChecksBeforeModel ==
    /\ (gt.created \/ gt.invoked) => Accepted(gt.request)
    /\ (ar.created \/ ar.invoked) => Accepted(ar.request)
    /\ (gt.request # NoRequest /\ ~Accepted(gt.request)) =>
          /\ gt.pc = "responded"
          /\ gt.http.status >= 400
          /\ gt.http.error # "none"
          /\ ~gt.created /\ ~gt.invoked /\ ~gt.resolved
    /\ (ar.request # NoRequest /\ ~Accepted(ar.request)) =>
          /\ ar.pc = "responded"
          /\ ar.http.status >= 400
          /\ ar.http.error # "none"
          /\ ~ar.created /\ ~ar.invoked

\* Each handler has rejected a request: generate-tests for the missing API
\* key, analyze-results for its body.
C13_Witness ==
    /\ gt.pc = "responded" /\ gt.request = [body |-> "valid", configured |-> FALSE]
    /\ ar.pc = "responded" /\ ar.request = [body |-> "invalid", configured |-> TRUE]
    /\ ~gt.invoked /\ ~ar.invoked

\* C14: no failure leaves a handler as a thrown error.  Whatever the try
\* block threw (in body parsing, validation, the credential check, the model
\* invocation, the check for zero valid evaluations), the handler has
\* responded with an error object and status 500, and in generate-tests the
\* details field is the message of the thrown Error ('Unknown error' for a
\* thrown value that is no Error); the missing configuration of
\* analyze-results is an error response too, and only a request without a
\* failure gets status 200.
C14_FailuresBecomeResponses ==
    /\ gt.failure # NoError =>
          /\ gt.pc = "responded"
          /\ gt.http.status = 500
          /\ gt.http.error = "Failed to generate evaluations"
          /\ gt.http.details = (IF gt.failure.isError THEN gt.failure.message ELSE "Unknown error")
          /\ gt.http.details # "none"
          /\ gt.http.testCases = << >>
    /\ ar.failure # NoError =>
          /\ ar.pc = "responded"
          /\ ar.http.status = 500
          /\ ar.http.error = "Failed to analyze results"
          /\ ar.http.analysis = NoAnalysis
    /\ (gt.pc = "responded" /\ gt.http.status = 200) => gt.failure = NoError
    /\ (ar.pc = "responded" /\ ar.http.status = 200) => ar.failure = NoError
    /\ (ar.pc = "responded" /\ ar.failure = NoError /\ ar.http.status # 200) =>
          ar.http = MissingConfiguration

\* generate-tests failed for want of valid evaluations after the model
\* answered, analyze-results failed in the model invocation.
C14_Witness ==
    /\ gt.failure = NoValidEvaluations
    /\ gt.resolved
    /\ gt.http.details = "No valid evaluations generated"
    /\ ar.failure = ModelError
    /\ ar.http.status = 500

\* C15: analyze-results answers a request with a valid body and no usable
\* model configuration with status 400 and the error 'Missing or invalid LLM
\* configuration', the model neither created nor invoked; every other
\* failure is answered with status 500.
C15_MissingConfigurationIs400 ==
    /\ (ar.request.body = "valid" /\ ~ar.request.configured) =>
          /\ ar.pc = "responded"
          /\ ar.http.status = 400
          /\ ar.http.error = "Missing or invalid LLM configuration"
          /\ ~ar.created /\ ~ar.invoked
    /\ (ar.pc = "responded" /\ ar.http.status = 400) =>
          (ar.request.body = "valid" /\ ~ar.request.configured)
    /\ ar.failure # NoError => ar.http.status = 500

C15_Witness ==
    /\ ar.pc = "responded"
    /\ ar.request = [body |-> "valid", configured |-> FALSE]
    /\ ar.http.status = 400

\* ------------------------------------------------- claims on extractJSON
Has(text, char) == \E i \in DOMAIN text : text[i] = char

\* suffix is what is left of text from the first occurrence of char on.
IsSuffixFromFirst(suffix, text, char) ==
    LET cut == Len(text) - Len(suffix)
    IN  /\ cut >= 0
        /\ Len(suffix) >= 1
        /\ suffix = SubSeq(text, cut + 1, Len(text))
        /\ suffix[1] = char
        /\ \A i \in 1..cut : text[i] # char

\* C17: for a text with a "[" the repair is given the text from its first
\* "[" on, a "{" before it or not; for a text with a "{" and no "[" the
\* text from its first "{" on; for a text with neither the repair is not
\* called and the result is {evaluations: []}.
C17_BracketPriority ==
    gt.resolved =>
        /\ Has(gt.text, "[") =>
              /\ gt.repair.called
              /\ gt.lib # NotCalled
              /\ IsSuffixFromFirst(gt.repair.text, gt.text, "[")
        /\ (~Has(gt.text, "[") /\ Has(gt.text, "{")) =>
              /\ gt.repair.called
              /\ gt.lib # NotCalled
              /\ IsSuffixFromFirst(gt.repair.text, gt.text, "{")
        /\ (~Has(gt.text, "[") /\ ~Has(gt.text, "{")) =>
              /\ ~gt.repair.called
              /\ gt.lib = NotCalled
              /\ gt.extracted = [threw |-> FALSE, value |-> Envelope(Arr(<< >>))]

\* A "{" comes before the "[": the repair is given the text from the "[".
C17_Witness ==
    /\ gt.resolved
    /\ gt.text = <<"{", "[">>
    /\ gt.repair = [called |-> TRUE, text |-> <<"[">>]

====
